---------------------------- MODULE Spec2Model ----------------------------
(***************************************************************************)
(* EcoWise client pipeline: progress-observable upload with a timeout      *)
(* timer (uploadWithProgress in frontend/script.js, uploadFileWithProgress *)
(* in frontend/analyze.js), the response normalizer (normalizeResponse in  *)
(* frontend/script.js) and the two analyze orchestrators.                  *)
(*                                                                         *)
(* JavaScript values are tagged records [t |-> tag, v |-> payload]:        *)
(*   undef, null        payload 0                                          *)
(*   bool               payload BOOLEAN                                    *)
(*   num                payload Int, the number in hundredths (0.92 = 92)  *)
(*   nan                payload 0                                          *)
(*   str                payload a sequence of tokens; the token " " is a   *)
(*                      whitespace character, every other token is a run   *)
(*                      of non-whitespace characters                       *)
(*   arr                payload a sequence of values                       *)
(*   obj                payload a record: own property name -> value       *)
(***************************************************************************)
EXTENDS Integers, Sequences, FiniteSets, TLC

-----------------------------------------------------------------------------
(* JavaScript value layer *)

Undef == [t |-> "undef", v |-> 0]

Null == [t |-> "null", v |-> 0]

NaN == [t |-> "nan", v |-> 0]

Bool(b) == [t |-> "bool", v |-> b]

Num(n) == [t |-> "num", v |-> n]

Whole(n) == Num(n * 100)

Str(s) == [t |-> "str", v |-> s]

Arr(a) == [t |-> "arr", v |-> a]

Obj(r) == [t |-> "obj", v |-> r]

Throw == [t |-> "throw", v |-> 0]

\* ToBoolean
Truthy(x) ==
    CASE x.t \in {"undef", "null", "nan"} -> FALSE
      [] x.t = "bool" -> x.v
      [] x.t = "num" -> x.v # 0
      [] x.t = "str" -> x.v # <<>>
      [] OTHER -> TRUE

\* a || b
Or2(a, b) == IF Truthy(a) THEN a ELSE b

\* a && b
And2(a, b) == IF Truthy(a) THEN b ELSE a

\* o.k for a value o that is not null/undefined (own data properties only)
Get(o, k) == IF o.t = "obj" /\ k \in DOMAIN o.v THEN o.v[k] ELSE Undef

IsArray(x) == x.t = "arr"

\* String.prototype.trim on a token sequence
RECURSIVE TrimLeft(_)
TrimLeft(s) == IF s # <<>> /\ Head(s) = " " THEN TrimLeft(Tail(s)) ELSE s

RECURSIVE TrimRight(_)
TrimRight(s) ==
    IF s # <<>> /\ s[Len(s)] = " " THEN TrimRight(SubSeq(s, 1, Len(s) - 1)) ELSE s

Trim(s) == TrimRight(TrimLeft(s))

\* string concatenation on token sequences: the tokens that meet are merged
\* unless one of them is whitespace
StrCat(a, b) ==
    IF a = <<>> THEN b
    ELSE IF b = <<>> THEN a
    ELSE IF a[Len(a)] = " " \/ Head(b) = " " THEN a \o b
    ELSE SubSeq(a, 1, Len(a) - 1) \o <<a[Len(a)] \o Head(b)>> \o Tail(b)

\* Number::toString for a number held in hundredths: one token
NumToTokens(n) ==
    LET a == IF n < 0 THEN -n ELSE n
        whole == a \div 100
        frac == a % 100
        sign == IF n < 0 THEN "-" ELSE ""
        fracTok == IF frac % 10 = 0 THEN ToString(frac \div 10)
                   ELSE IF frac < 10 THEN "0" \o ToString(frac)
                   ELSE ToString(frac)
    IN  IF frac = 0 THEN <<sign \o ToString(whole)>>
        ELSE <<sign \o ToString(whole) \o "." \o fracTok>>

\* the numbers whose decimal numerals the model's strings can spell
MaxNum == 1000

RECURSIVE ToStr(_)
RECURSIVE JoinArr(_)
\* Array.prototype.join(",") as used by String(array)
JoinArr(a) ==
    IF a = <<>> THEN <<>>
    ELSE LET h == IF Head(a).t \in {"undef", "null"} THEN <<>> ELSE ToStr(Head(a))
         IN  IF Len(a) = 1 THEN h ELSE StrCat(StrCat(h, <<",">>), JoinArr(Tail(a)))

\* String(x)
ToStr(x) ==
    CASE x.t = "undef" -> <<"undefined">>
      [] x.t = "null" -> <<"null">>
      [] x.t = "nan" -> <<"NaN">>
      [] x.t = "bool" -> IF x.v THEN <<"true">> ELSE <<"false">>
      [] x.t = "num" -> NumToTokens(x.v)
      [] x.t = "str" -> x.v
      [] x.t = "arr" -> JoinArr(x.v)
      [] OTHER -> <<"[object", " ", "Object]">>

\* StringToNumber: whitespace is trimmed, the empty string is 0, a decimal
\* numeral is its value, anything else is NaN.  Numerals are recognised in
\* the canonical spelling Number::toString produces, within -MaxNum..MaxNum.
StrToNum(s) ==
    LET b == Trim(s)
    IN  IF b = <<>> THEN Num(0)
        ELSE IF \E n \in -MaxNum..MaxNum : NumToTokens(n) = b
             THEN Num(CHOOSE n \in -MaxNum..MaxNum : NumToTokens(n) = b)
             ELSE NaN

\* Number(x)
ToNum(x) ==
    CASE x.t = "undef" -> NaN
      [] x.t = "null" -> Num(0)
      [] x.t = "nan" -> NaN
      [] x.t = "bool" -> IF x.v THEN Whole(1) ELSE Whole(0)
      [] x.t = "num" -> x
      [] x.t = "str" -> StrToNum(x.v)
      [] x.t = "arr" -> StrToNum(JoinArr(x.v))
      [] OTHER -> NaN

\* o[key] with a computed key: array index or own property
GetComputed(o, key) ==
    LET ks == ToStr(key)
    IN  IF o.t = "arr"
        THEN IF \E i \in 1..Len(o.v) : ks = <<ToString(i - 1)>>
             THEN o.v[CHOOSE i \in 1..Len(o.v) : ks = <<ToString(i - 1)>>]
             ELSE Undef
        ELSE IF o.t = "obj" /\ \E k \in DOMAIN o.v : ks = <<k>>
             THEN o.v[CHOOSE k \in DOMAIN o.v : ks = <<k>>]
             ELSE Undef

\* the first of a list of property names whose value is an array
RECURSIVE FirstArray(_, _)
FirstArray(o, names) ==
    IF names = <<>> THEN Undef
    ELSE IF IsArray(Get(o, Head(names))) THEN Get(o, Head(names))
    ELSE FirstArray(o, Tail(names))

-----------------------------------------------------------------------------
(* Normalizer: normalizeResponse, frontend/script.js *)

\* the alias order of the detections field
DetectionAliases == <<"detected_objects", "detected", "objects", "results", "items">>

\* the alias order of the recommendations field (array-valued aliases)
RecAliases == <<"recommendations", "recs", "recommend">>

\* the tail of a synthesized recommendation (the em dash is spelled "--")
RecSuffix == <<" ", "--", " ", "Unknown:", " ", "please", " ", "consult", " ",
               "local", " ", "recycling", " ", "rules">>

\* the result of the !raw branch
NullDefault ==
    Obj([success |-> Bool(FALSE), detected_objects |-> Arr(<<>>),
         recommendations |-> Arr(<<>>), eco_points |-> Whole(0),
         carbon_saved_kg |-> Whole(0)])

\* the label of one detection: d.name || d.label || ... || 'item'
DetName(d) ==
    Or2(Get(d, "name"), Or2(Get(d, "label"), Or2(Get(d, "class"),
    Or2(Get(d, "type"), Or2(Get(d, "item"),
    Or2(And2(Get(d, "names"), GetComputed(Get(d, "names"), Get(d, "cls"))),
        Str(<<"item">>)))))))

\* the score of one detection: the first of conf, confidence, score,
\* probability that is not undefined, else 0
DetConf(d) ==
    IF Get(d, "conf") # Undef THEN Get(d, "conf")
    ELSE IF Get(d, "confidence") # Undef THEN Get(d, "confidence")
    ELSE IF Get(d, "score") # Undef THEN Get(d, "score")
    ELSE IF Get(d, "probability") # Undef THEN Get(d, "probability")
    ELSE Whole(0)

DetBbox(d) == Or2(Get(d, "bbox"), Or2(Get(d, "xyxy"), Or2(Get(d, "box"), Null)))

\* the callback of detected.map
MapDetection(d) ==
    Obj([name |-> Str(Trim(ToStr(Or2(DetName(d), Str(<<>>))))),
         conf |-> ToNum(Or2(DetConf(d), Whole(0))),
         bbox |-> DetBbox(d)])

\* the list the detections are taken from
SelectDetected(raw) ==
    IF IsArray(FirstArray(raw, DetectionAliases)) THEN FirstArray(raw, DetectionAliases).v
    ELSE IF IsArray(raw) THEN raw.v
    ELSE <<>>

\* the list the recommendations are taken from, before synthesis
SelectRecs(raw) ==
    IF IsArray(FirstArray(raw, RecAliases)) THEN FirstArray(raw, RecAliases).v
    ELSE IF Truthy(Get(raw, "recommendation")) THEN <<Get(raw, "recommendation")>>
    ELSE IF Truthy(Get(raw, "message")) THEN <<Get(raw, "message")>>
    ELSE <<>>

\* the fetchWithTimeout wrapper { ok, status, json } is unwrapped
Unwrap(raw) ==
    IF Truthy(And2(Get(raw, "json"), Or2(Get(raw, "status"), Get(raw, "res"))))
    THEN Get(raw, "json") ELSE raw

EcoPoints(raw) ==
    IF Get(raw, "eco_points") # Undef THEN Get(raw, "eco_points")
    ELSE Or2(Get(raw, "points"), Or2(Get(raw, "points_earned"), Whole(0)))

CarbonSaved(raw) ==
    IF Get(raw, "carbon_saved_kg") # Undef THEN Get(raw, "carbon_saved_kg")
    ELSE Or2(Get(raw, "carbon"), Whole(0))

DebugField(raw, detected) ==
    Or2(Get(raw, "debug"),
        Obj([model_loaded |-> Or2(Get(raw, "model_loaded"), Bool(FALSE)),
             detections_count |-> Whole(Len(detected))]))

\* a fallback that replaces the recommendations of the backend whenever
\* there are detections
FallbackRecsAlways(recs0, detected) ==
    IF Len(detected) # 0
    THEN [i \in 1..Len(detected) |-> Str(Get(detected[i], "name").v \o RecSuffix)]
    ELSE recs0

\* the fallback: one generic recommendation per detection when the list of
\* recommendations is empty and there are detections
FallbackRecs(recs0, detected) ==
    IF Len(recs0) = 0 /\ Len(detected) # 0
    THEN [i \in 1..Len(detected) |-> Str(Get(detected[i], "name").v \o RecSuffix)]
    ELSE recs0

\* normalizeResponse(raw): the normalized object, or Throw when the body
\* raises a TypeError (a property read on a null or undefined detection)
normalizeResponse(raw0) ==
    IF ~Truthy(raw0) THEN NullDefault
    ELSE
      LET raw == Unwrap(raw0)
          sel == SelectDetected(raw)
      IN  IF \E i \in 1..Len(sel) : sel[i].t \in {"null", "undef"} THEN Throw
          ELSE
            LET detected == [i \in 1..Len(sel) |-> MapDetection(sel[i])]
                recs0 == SelectRecs(raw)
                recs == FallbackRecs(recs0, detected)
            IN  Obj([success |-> IF Get(raw, "success") # Undef
                                 THEN Get(raw, "success") ELSE Bool(TRUE),
                     detected_objects |-> Arr(detected),
                     recommendations |-> Arr(recs),
                     eco_points |-> EcoPoints(raw),
                     carbon_saved_kg |-> CarbonSaved(raw),
                     filename |-> Or2(Get(raw, "filename"), Or2(Get(raw, "file"), Str(<<>>))),
                     debug |-> DebugField(raw, detected)])

-----------------------------------------------------------------------------
(* Upload transport and analyze orchestration *)

\* most progress events delivered during one upload
MaxProgress == 2

\* size of the request body, in chunks, as reported by progress events
TotalChunks == 2

\* HTTP statuses the server answers with
StatusCodes == {200, 204, 400, 500}

\* the 2xx test of both onload handlers
IsSuccessStatus(st) == st >= 200 /\ st < 300

\* the /detect demo answer of the bundled server
DetectAnswer ==
    Obj([detected_objects |->
            Arr(<<Obj([name |-> Str(<<"bottle">>), confidence |-> Num(92)])>>),
         recommendations |->
            Arr(<<Str(<<"Rinse", " ", "and", " ", "recycle", " ", "at", " ", "center">>)>>),
         carbon_saved_kg |-> Num(50),
         total_points |-> Whole(10)])

\* the JSON error body of the bundled server
ErrorAnswer == Obj([error |-> Str(<<"No", " ", "image", " ", "uploaded">>)])

\* values of xhr.response with responseType 'json': null stands for an empty
\* or non-JSON body
ResponseBodies ==
    {Null, DetectAnswer, ErrorAnswer,
     Obj([detected_objects |-> Arr(<<>>)]),
     Obj([items |-> Arr(<<Null>>)])}

VARIABLES
    impl,            \* "script" (script.js) or "analyze" (analyze.js)
    pc,              \* position of the analyze operation
    button,          \* analyze button: "enabled" or "disabled"
    ui,              \* what resultsContent shows
    xhr,             \* state of the XMLHttpRequest
    status,          \* xhr.status
    response,        \* xhr.response
    uploaded,        \* chunks the transport has reported as sent
    timer,           \* abortTimer: "unset", "armed", "cleared", "fired"
    promise,         \* "pending", "resolved", "rejected"
    resolveCalls,    \* invocations of resolve
    rejectCalls,     \* invocations of reject
    resolvedWith,    \* value of the first resolve
    rejectedWith,    \* message of the first reject
    events,          \* per-call log: "progress", "abort", "resolve", "reject"
    progressLog,     \* numerators loaded of the fractions passed to onProgress
    normalizerCalls, \* invocations of normalizeResponse by the orchestrator
    renderLog,       \* invocations of renderResults that drew a detection list
    mockTimer,       \* the 600 ms showMockResult timer of analyze.js
    raw,             \* normalizer input under check
    out1,            \* normalizeResponse(raw)
    out2,            \* normalizeResponse(out1)
    nstage,          \* "input", "once", "twice"
    cpc,             \* position of the compressor: "idle", "decoding", "encoding", "done", "hung"
    fileSize,        \* file.size, in units of half a mebibyte
    native,          \* whether window.createImageBitmap exists
    encK,            \* the encoder: bytes per unit of quality for the drawn canvas
    bitmap,          \* dimensions of the decoded image
    canvas,          \* dimensions of the canvas that is encoded
    canvasSets,      \* assignments of the dimensions of that canvas
    quality,         \* quality of the last toBlob call, in hundredths
    blob,            \* result of the last toBlob call
    encodes,         \* toBlob calls issued
    urlsCreated,     \* URL.createObjectURL calls of the decoder
    urlsRevoked,     \* URL.revokeObjectURL calls for those URLs
    returned,        \* what the compressor returned
    thrown,          \* whether the compressor rejected to its caller
    label,           \* analyzeBtn.innerHTML
    prevLabel,       \* analyzeBtn.dataset.prev
    calls,           \* position of each analyzeImage call
    initialLabel,    \* analyzeBtn.innerHTML as the page was loaded
    overlapped,      \* whether a call started while another was under way
    scriptList,      \* detected, as normalizeResponse of script.js selects it
    analyzeList,     \* detected, as the click handler and renderResults of analyze.js select it
    demoI,           \* the index i of startDemoMode
    inDemo,          \* inDemo of script.js
    demoTimer,       \* the interval: "unset", "active", "finished", "stopped"
    demoRuns,        \* per interval callback that analyzes: the file and whether it still awaits
    currentFile,     \* currentFile of analyze.js: 0 for null, else a file (-1 for a capture)
    pageRuns,        \* per click handler started: its position and whether currentFile.name threw
    anotherShown,    \* whether the results hold the Analyze Another button
    cameraStream,    \* cameraStream of analyze.js: 0 for null, else a stream
    streams,         \* per getUserMedia request: "pending", "live", "stopped", "denied"
    captures         \* toBlob callbacks of captureFromCamera still to come

uploadVars == <<xhr, status, response, uploaded, timer, promise, resolveCalls,
                rejectCalls, resolvedWith, rejectedWith, events, progressLog>>

analyzeVars == <<impl, pc, button, ui, normalizerCalls, renderLog, mockTimer>>

normVars == <<raw, out1, out2, nstage>>

codecVars == <<cpc, fileSize, native, encK, bitmap, canvas, canvasSets, quality,
               blob, encodes, urlsCreated, urlsRevoked, returned, thrown>>

callVars == <<label, prevLabel, calls, initialLabel, overlapped>>

\* what the upload and the orchestration of one call leave alone
selVars == <<scriptList, analyzeList>>

demoVars == <<demoI, inDemo, demoTimer, demoRuns>>

pageVars == <<currentFile, pageRuns, anotherShown, cameraStream, streams, captures>>

\* the state of the operations added to the model after the first four
extraVars == <<selVars, demoVars, pageVars>>

otherVars == <<normVars, codecVars, callVars, extraVars>>

vars == <<uploadVars, analyzeVars, normVars, codecVars, callVars, extraVars>>

\* a handler that forgets clearTimeout
ClearTimeoutKeeps(tm) == tm

\* clearTimeout(abortTimer)
ClearTimeout(tm) == IF tm = "armed" THEN "cleared" ELSE tm

\* the promise after resolve(v) / reject(e): only the first settlement counts
Settle(kind) == IF promise = "pending" THEN kind ELSE promise

\* resolve(v)
Resolve(v) ==
    /\ promise' = Settle("resolved")
    /\ resolveCalls' = resolveCalls + 1
    /\ resolvedWith' = IF promise = "pending" THEN v ELSE resolvedWith
    /\ UNCHANGED <<rejectCalls, rejectedWith>>

\* reject(new Error(msg))
Reject(msg) ==
    /\ promise' = Settle("rejected")
    /\ rejectCalls' = rejectCalls + 1
    /\ rejectedWith' = IF promise = "pending" THEN msg ELSE rejectedWith
    /\ UNCHANGED <<resolveCalls, resolvedWith>>

\* a handler that raises before it reaches resolve or reject
NoSettle == UNCHANGED <<promise, resolveCalls, rejectCalls, resolvedWith, rejectedWith>>

InitUpload ==
    /\ xhr = "unsent" /\ status = 0 /\ response = Null /\ uploaded = 0
    /\ timer = "unset" /\ promise = "pending"
    /\ resolveCalls = 0 /\ rejectCalls = 0
    /\ resolvedWith = Undef /\ rejectedWith = ""
    /\ events = <<>> /\ progressLog = <<>>

InitAnalyze ==
    /\ pc = "idle" /\ button = "enabled" /\ ui = "initial"
    /\ normalizerCalls = 0 /\ renderLog = <<>> /\ mockTimer = "unset"

InitNorm == raw = Undef /\ out1 = Undef /\ out2 = Undef /\ nstage = "input"

\* no compression under way
InitCodec ==
    /\ cpc = "idle" /\ fileSize = 0 /\ native = TRUE /\ encK = 0
    /\ bitmap = Null /\ canvas = Null /\ canvasSets = 0
    /\ quality = 0 /\ blob = Null /\ encodes = 0
    /\ urlsCreated = 0 /\ urlsRevoked = 0
    /\ returned = [kind |-> "none", size |-> 0, quality |-> 0] /\ thrown = FALSE

\* no selection made
InitSel == scriptList = Undef /\ analyzeList = Undef

\* the demo has not been started
InitDemo == demoI = 0 /\ inDemo = FALSE /\ demoTimer = "unset" /\ demoRuns = <<>>

\* analyze.js as loaded: nothing selected, no camera
InitPageVars ==
    /\ currentFile = 0 /\ pageRuns = <<>> /\ anotherShown = FALSE
    /\ cameraStream = 0 /\ streams = <<>> /\ captures = 0

\* the operations added later, at rest
InitExtra == InitSel /\ InitDemo /\ InitPageVars

\* the button as the page loads it, and no call under way
InitCalls ==
    /\ label = Str(<<"Analyze">>) /\ initialLabel = Str(<<"Analyze">>)
    /\ prevLabel = Undef /\ calls = <<>> /\ overlapped = FALSE

Init ==
    /\ impl \in {"script", "analyze"}
    /\ InitAnalyze /\ InitUpload /\ InitNorm
    /\ InitCodec /\ InitCalls
    /\ InitExtra

-----------------------------------------------------------------------------
(* Actions of the upload call *)

\* what an onload handler does once the timer is cleared
OnLoadResolve(v) == [kind |-> "resolve", val |-> v, msg |-> ""]

OnLoadReject(m) == [kind |-> "reject", val |-> Undef, msg |-> m]

\* the handler raised: reading xhr.responseText while responseType is 'json'
\* raises InvalidStateError
OnLoadThrow == [kind |-> "throw", val |-> Undef, msg |-> ""]

\* xhr.onload of uploadWithProgress (script.js)
ScriptOnLoad(st, body) ==
    IF IsSuccessStatus(st)
    THEN IF Truthy(body) THEN OnLoadResolve(body) ELSE OnLoadThrow
    ELSE OnLoadReject("Upload failed (status)")

\* xhr.onload of uploadFileWithProgress (analyze.js)
AnalyzeOnLoad(st, body) ==
    IF IsSuccessStatus(st) THEN OnLoadResolve(body)
    ELSE IF Truthy(body) THEN OnLoadResolve(body)
    ELSE OnLoadReject("Upload failed: status")

OnLoad(st, body) ==
    IF impl = "script" THEN ScriptOnLoad(st, body) ELSE AnalyzeOnLoad(st, body)

\* xhr.upload.onprogress: the transport reports loaded of TotalChunks;
\* onProgress is called only when the length is computable
UploadProgress ==
    /\ xhr = "sent"
    /\ Len(SelectSeq(events, LAMBDA e : e = "progress" \/ e = "progress-skipped")) < MaxProgress
    /\ \E lengthComputable \in BOOLEAN, loaded \in uploaded..TotalChunks :
          /\ uploaded' = loaded
          /\ IF lengthComputable
             THEN /\ progressLog' = Append(progressLog, loaded)
                  /\ events' = Append(events, "progress")
             ELSE /\ progressLog' = progressLog
                  /\ events' = Append(events, "progress-skipped")
    /\ UNCHANGED <<xhr, status, response, timer, promise, resolveCalls,
                   rejectCalls, resolvedWith, rejectedWith>>
    /\ UNCHANGED <<analyzeVars, otherVars>>

\* xhr.onload
XhrLoad ==
    /\ xhr = "sent"
    /\ \E st \in StatusCodes, body \in ResponseBodies :
          /\ xhr' = "loaded"
          /\ status' = st
          /\ response' = body
          /\ timer' = ClearTimeout(timer)
          /\ LET o == OnLoad(st, body)
             IN  CASE o.kind = "resolve" ->
                        Resolve(o.val) /\ events' = Append(events, "resolve")
                   [] o.kind = "reject" ->
                        Reject(o.msg) /\ events' = Append(events, "reject")
                   [] OTHER -> NoSettle /\ events' = Append(events, "throw")
    /\ UNCHANGED <<uploaded, progressLog>>
    /\ UNCHANGED <<analyzeVars, otherVars>>

\* xhr.onerror
XhrError ==
    /\ xhr = "sent"
    /\ xhr' = "errored"
    /\ timer' = ClearTimeout(timer)
    /\ Reject("Network error during upload")
    /\ events' = Append(events, "reject")
    /\ UNCHANGED <<status, response, uploaded, progressLog>>
    /\ UNCHANGED <<analyzeVars, otherVars>>

\* a timer callback that rejects without aborting the request
AbortTimerIgnores ==
    /\ timer = "armed"
    /\ timer' = "fired"
    /\ xhr' = xhr
    /\ Reject("Upload timeout")
    /\ events' = Append(events, "reject")
    /\ UNCHANGED <<status, response, uploaded, progressLog>>
    /\ UNCHANGED <<analyzeVars, otherVars>>

\* a timer callback that rejects first and aborts afterwards
AbortTimerRejectsFirst ==
    /\ timer = "armed"
    /\ timer' = "fired"
    /\ xhr' = IF xhr = "sent" THEN "aborted" ELSE xhr
    /\ Reject("Upload timeout")
    /\ events' = events \o <<"reject", "abort">>
    /\ UNCHANGED <<status, response, uploaded, progressLog>>
    /\ UNCHANGED <<analyzeVars, otherVars>>

\* the abortTimer callback: xhr.abort(), then reject('Upload timeout')
AbortTimerFires ==
    /\ timer = "armed"
    /\ timer' = "fired"
    /\ xhr' = IF xhr = "sent" THEN "aborted" ELSE xhr
    /\ Reject("Upload timeout")
    /\ events' = events \o <<"abort", "reject">>
    /\ UNCHANGED <<status, response, uploaded, progressLog>>
    /\ UNCHANGED <<analyzeVars, otherVars>>

-----------------------------------------------------------------------------
(* Actions of the analyze operation *)

\* the list analyze.js stores in data.detected_objects
AnalyzeSelectDetected(data) ==
    Or2(Get(data, "detected_objects"), Or2(Get(data, "detected"),
    Or2(Get(data, "items"), Or2(Get(data, "objects"),
    Or2(Get(data, "results"), Arr(<<>>))))))

\* renderResults of analyze.js on the upload result res: the number of
\* detections drawn, or -1 when reading the first detection raises
AnalyzeRender(res) ==
    LET data == IF Truthy(res) /\ res.t \in {"obj", "arr"} THEN res ELSE Obj(<<>>)
        sel == AnalyzeSelectDetected(data)
        detected == IF IsArray(sel) THEN sel.v ELSE <<>>
    IN  IF Len(detected) = 0 THEN 0
        ELSE IF detected[1].t \in {"null", "undef"} THEN -1
        ELSE Len(detected)

\* renderResults of script.js on normalized data: the number of detections
\* drawn (none when data.success is falsy)
ScriptRender(data) ==
    IF ~Truthy(Get(data, "success")) THEN 0
    ELSE IF IsArray(Get(data, "detected_objects"))
         THEN Len(Get(data, "detected_objects").v) ELSE 0

\* the detections of the object showMockResult renders
MockDetections == 1

\* analyzeImage / the analyzeButton click handler, up to the first await
AnalyzeClick ==
    /\ pc = "idle"
    /\ button = "enabled"
    /\ \E fileOk \in BOOLEAN :
          IF fileOk
          THEN /\ pc' = "compress"
               /\ button' = "disabled"
               /\ ui' = "analyzing"
          ELSE /\ ui' = IF impl = "script" THEN "validation" ELSE ui
               /\ UNCHANGED <<pc, button>>
    /\ UNCHANGED <<impl, normalizerCalls, renderLog, mockTimer>>
    /\ UNCHANGED <<uploadVars, otherVars>>

\* the compressor returns and the upload function runs up to xhr.send;
\* maybeCompress of script.js can raise, compressImage of analyze.js cannot
CallUpload ==
    /\ pc = "compress"
    /\ \E compressOk \in BOOLEAN, sendOk \in BOOLEAN :
          IF ~compressOk /\ impl = "script"
          THEN /\ pc' = "done"
               /\ ui' = "failure"
               /\ button' = "enabled"
               /\ UNCHANGED uploadVars
          ELSE /\ pc' = "upload"
               /\ UNCHANGED <<ui, button>>
               /\ IF sendOk
                  THEN /\ xhr' = "sent"
                       /\ timer' = "armed"
                       /\ events' = events
                       /\ NoSettle
                  ELSE /\ xhr' = "send-failed"
                       /\ timer' = ClearTimeout("armed")
                       /\ events' = Append(events, "reject")
                       /\ Reject("send threw")
               /\ UNCHANGED <<status, response, uploaded, progressLog>>
    /\ UNCHANGED <<impl, normalizerCalls, renderLog, mockTimer>>
    /\ UNCHANGED otherVars

\* the continuation after `await upload`: try / catch / finally
AnalyzeResume ==
    /\ pc = "upload"
    /\ promise # "pending"
    /\ pc' = "done"
    /\ button' = "enabled"
    /\ IF promise = "rejected"
       THEN /\ ui' = "failure"
            /\ mockTimer' = IF impl = "analyze" THEN "armed" ELSE mockTimer
            /\ UNCHANGED <<normalizerCalls, renderLog>>
       ELSE IF impl = "script"
       THEN /\ normalizerCalls' = normalizerCalls + 1
            /\ LET data == normalizeResponse(resolvedWith)
               IN  IF data = Throw
                   THEN ui' = "failure" /\ renderLog' = renderLog
                   ELSE /\ ui' = IF Truthy(Get(data, "success")) THEN "result" ELSE "noresult"
                        /\ renderLog' = Append(renderLog,
                               [src |-> "response", ndet |-> ScriptRender(data)])
            /\ UNCHANGED mockTimer
       ELSE /\ UNCHANGED normalizerCalls
            /\ LET n == AnalyzeRender(resolvedWith)
               IN  IF n = -1
                   THEN /\ ui' = "failure"
                        /\ mockTimer' = "armed"
                        /\ renderLog' = renderLog
                   ELSE /\ ui' = IF n = 0 THEN "empty" ELSE "result"
                        /\ renderLog' = Append(renderLog, [src |-> "response", ndet |-> n])
                        /\ UNCHANGED mockTimer
    /\ UNCHANGED impl
    /\ UNCHANGED <<uploadVars, otherVars>>

\* setTimeout(() => showMockResult(), 600) of the analyze.js catch block
MockTimerFires ==
    /\ mockTimer = "armed"
    /\ mockTimer' = "fired"
    /\ ui' = "result"
    /\ renderLog' = Append(renderLog, [src |-> "mock", ndet |-> MockDetections])
    /\ UNCHANGED <<impl, pc, button, normalizerCalls>>
    /\ UNCHANGED <<uploadVars, otherVars>>

Next ==
    \/ AnalyzeClick
    \/ CallUpload
    \/ UploadProgress
    \/ XhrLoad
    \/ XhrError
    \/ AbortTimerFires
    \/ AnalyzeResume
    \/ MockTimerFires

Spec == Init /\ [][Next]_vars

-----------------------------------------------------------------------------
(* Properties of the upload call and of the analyze operation *)

\* positions of the per-call log
EventIndex == 1..Len(events)

\* C1: an upload call settles at most once: resolve and reject are invoked
\* at most once in total, and the timeout timer never fires after a load,
\* error or send failure has settled the call.
C1_SettlesAtMostOnce ==
    /\ resolveCalls + rejectCalls <= 1
    /\ ~(timer = "fired" /\ xhr \in {"loaded", "errored", "send-failed"})

\* a load event resolved the call and cleared the timer
C1_Witness ==
    /\ xhr = "loaded" /\ promise = "resolved"
    /\ resolveCalls = 1 /\ rejectCalls = 0 /\ timer = "cleared"

\* C2: every upload call is settled once its timeout timer is no longer
\* armed (cleared by a handler or fired), for every server outcome.
C2_SettledOnceTimerGone == timer \in {"cleared", "fired"} => promise # "pending"

\* C3: when the timeout timer fires, the request is aborted and then the
\* call is rejected with 'Upload timeout'.
C3_TimeoutAbortsThenRejects ==
    timer = "fired" =>
        /\ promise = "rejected"
        /\ rejectedWith = "Upload timeout"
        /\ xhr = "aborted"
        /\ \E i \in EventIndex : /\ events[i] = "abort"
                                 /\ i + 1 \in EventIndex
                                 /\ events[i + 1] = "reject"
        /\ \A i \in EventIndex : events[i] = "reject" => i > 1 /\ events[i - 1] = "abort"

\* the timer fired while the request was in flight and the operation finished
C3_Witness == timer = "fired" /\ pc = "done" /\ xhr = "aborted"

\* the messages of the failures of the transport
TransportFailures ==
    {"Upload timeout", "Network error during upload",
     "Upload failed (status)", "Upload failed: status"}

\* C4: after a transport failure (timeout, network error, rejected status)
\* the analyze operation neither normalizes nor renders a detection result.
C4_NoRenderAfterTransportFailure ==
    (promise = "rejected" /\ rejectedWith \in TransportFailures) =>
        /\ normalizerCalls = 0
        /\ \A i \in 1..Len(renderLog) : renderLog[i].ndet = 0

\* C5: onProgress is never invoked after the upload call has settled.
C5_NoProgressAfterSettle ==
    \A i, j \in EventIndex :
        (i < j /\ events[i] \in {"resolve", "reject"}) => events[j] # "progress"

\* progress was delivered, then the timer fired and rejected the call
C5_Witness ==
    /\ timer = "fired" /\ promise = "rejected"
    /\ \E i \in EventIndex : events[i] = "progress"

\* C25: the fractions passed to onProgress during one call are in [0,1]
\* and never decrease, and when the call resolves the last one delivered
\* is 1.
C25_ProgressFractions ==
    /\ \A i \in 1..Len(progressLog) : progressLog[i] \in 0..TotalChunks
    /\ \A i, j \in 1..Len(progressLog) : i < j => progressLog[i] <= progressLog[j]
    /\ (promise = "resolved" /\ progressLog # <<>>)
          => progressLog[Len(progressLog)] = TotalChunks

\* C6: on a non-2xx status the call resolves with the parsed body when there
\* is one, and rejects only when the body could not be parsed.
C6_ParseableErrorBodyResolves ==
    (xhr = "loaded" /\ ~IsSuccessStatus(status)) =>
        IF Truthy(response)
        THEN promise = "resolved" /\ resolvedWith = response
        ELSE promise = "rejected"

-----------------------------------------------------------------------------
(* The normalizer as a function of its input *)

\* longest detection list among the inputs
MaxDetections == 2

\* elements a backend may put in a detection list
DetectionElements ==
    {Null,
     Str(<<"bottle">>),
     Obj([name |-> Str(<<"bottle">>), confidence |-> Num(92)]),
     Obj([name |-> Str(<<" ", " ">>), conf |-> Num(50)]),
     Obj([label |-> Str(<<" ", "can", " ">>), score |-> Str(<<"0.5">>),
          bbox |-> Arr(<<Whole(1), Whole(2)>>)]),
     Obj([names |-> Arr(<<Str(<<"cup">>), Str(<<"book">>)>>), cls |-> Whole(1),
          probability |-> Str(<<"high">>)])}

RECURSIVE ListsUpTo(_, _)
\* the sequences over S of length at most n
ListsUpTo(S, n) ==
    IF n = 0 THEN {<<>>}
    ELSE LET shorter == ListsUpTo(S, n - 1)
         IN  shorter \cup {Append(l, e) : l \in {x \in shorter : Len(x) = n - 1}, e \in S}

DetectionLists == ListsUpTo(DetectionElements, MaxDetections)

\* the fields a response carries next to its detections
ExtraFields ==
    {<<>>,
     [eco_points |-> Whole(-5)],
     [points |-> Whole(10), carbon |-> Num(-50)],
     [total_points |-> Whole(10), carbon_saved_kg |-> Num(50)],
     [debug |-> Obj([model_loaded |-> Bool(TRUE), detections_count |-> Whole(7)])],
     [success |-> Bool(FALSE), model_loaded |-> Bool(TRUE)],
     [recommendations |-> Arr(<<Str(<<"Recycle">>)>>), filename |-> Str(<<"a.jpg">>)],
     [recommendation |-> Str(<<"Reuse">>), points_earned |-> Whole(3)],
     [eco_points |-> Str(<<"12">>), message |-> Str(<<"ok">>)]}

\* an object with the detections under one alias and some extra fields
WithDetections(alias, dets, extra) ==
    Obj([k \in {alias} \cup DOMAIN extra |-> IF k = alias THEN Arr(dets) ELSE extra[k]])

\* the raw response of Scenario A: the /detect answer without recommendations
ScenarioA ==
    Obj([detected_objects |->
            Arr(<<Obj([name |-> Str(<<"bottle">>), confidence |-> Num(92)])>>),
         carbon_saved_kg |-> Num(50),
         total_points |-> Whole(10)])

RawInputs ==
    {Null, Undef, Str(<<>>), Str(<<"oops">>), Bool(TRUE), Whole(0), Whole(5)}
    \cup {Arr(dets) : dets \in DetectionLists}
    \cup {Obj(extra) : extra \in ExtraFields}
    \cup {WithDetections(DetectionAliases[a], dets, extra) :
             a \in 1..Len(DetectionAliases), dets \in DetectionLists, extra \in ExtraFields}
    \cup {Obj([json |-> DetectAnswer, status |-> Whole(200)]),
          Obj([json |-> Null, status |-> Whole(500)]),
          Obj([detected_objects |-> Arr(<<>>),
               items |-> Arr(<<Obj([name |-> Str(<<"can">>)])>>)]),
          Obj([detected_objects |-> Str(<<"none">>),
               results |-> Arr(<<Obj([type |-> Str(<<"jar">>)])>>)]),
          Obj([detected |-> Arr(<<Obj([name |-> Str(<<"can">>)])>>),
               recommendations |-> Arr(<<>>)]),
          Obj([objects |-> Arr(<<Obj([name |-> Str(<<"can">>)])>>),
               recommend |-> Arr(<<Str(<<"Rinse">>), Str(<<"Sort">>)>>)]),
          Obj([recs |-> Arr(<<Str(<<"Reuse">>)>>), success |-> Bool(TRUE)]),
          ScenarioA, DetectAnswer, ErrorAnswer}

InitNormalize ==
    /\ impl = "script"
    /\ InitAnalyze /\ InitUpload
    /\ InitCodec /\ InitCalls
    /\ raw \in RawInputs
    /\ out1 = Undef /\ out2 = Undef /\ nstage = "input"
    /\ InitExtra

\* data = normalizeResponse(raw)
NormalizeOnce ==
    /\ nstage = "input"
    /\ out1' = normalizeResponse(raw)
    /\ nstage' = "once"
    /\ UNCHANGED <<raw, out2>>
    /\ UNCHANGED <<extraVars, uploadVars, analyzeVars, codecVars, callVars>>

\* the result is normalized again
NormalizeTwice ==
    /\ nstage = "once"
    /\ out1 # Throw
    /\ out2' = normalizeResponse(out1)
    /\ nstage' = "twice"
    /\ UNCHANGED <<raw, out1>>
    /\ UNCHANGED <<extraVars, uploadVars, analyzeVars, codecVars, callVars>>

NextNormalize == NormalizeOnce \/ NormalizeTwice

SpecNormalize == InitNormalize /\ [][NextNormalize]_vars

\* the first normalization returned a result
Returned == nstage # "input" /\ out1 # Throw

\* C7: the diagnostics detection count of the result equals the number of
\* detections of the result, whatever the backend supplied.
C7_CountIsRecomputed ==
    Returned =>
        Get(Get(out1, "debug"), "detections_count")
            = Whole(Len(Get(out1, "detected_objects").v))

\* C8: normalizeResponse returns a result for every raw input; it never throws.
C8_NormalizeIsTotal == nstage # "input" => out1 # Throw

\* the fields of a result the idempotence is stated for
CoreFields(r) ==
    [k \in {"success", "detected_objects", "recommendations", "eco_points",
            "carbon_saved_kg"} |-> Get(r, k)]

\* C9: normalizing a normalized result changes none of success, detections
\* (labels, confidences), recommendations, points and carbon.
C9_NormalizeIsIdempotent ==
    (nstage = "twice" /\ out2 # Throw) => CoreFields(out2) = CoreFields(out1)

\* x is a number that is not negative
IsNonNegativeNumber(x) == x.t = "num" /\ x.v >= 0

\* C10: the normalized ecoPoints and carbonSavedKg are numbers >= 0.
C10_PointsAndCarbonNonNegative ==
    Returned =>
        /\ IsNonNegativeNumber(Get(out1, "eco_points"))
        /\ IsNonNegativeNumber(Get(out1, "carbon_saved_kg"))

\* the raw input as the normalizer reads its fields
Unwrapped == IF Truthy(raw) THEN Unwrap(raw) ELSE raw

\* the detections and the recommendations of the first result
OutDetections == Get(out1, "detected_objects").v

OutRecs == Get(out1, "recommendations").v

\* C11: success defaults to true when the input has no success field but a
\* detections field; it is false for null, undefined and {}; an explicit
\* success value is kept.
C11_SuccessDefault ==
    Returned =>
        /\ (Truthy(raw) /\ Get(Unwrapped, "success") = Undef
              /\ IsArray(FirstArray(Unwrapped, DetectionAliases)))
              => Get(out1, "success") = Bool(TRUE)
        /\ raw \in {Null, Undef, Obj(<<>>)} => Get(out1, "success") = Bool(FALSE)
        /\ (Truthy(raw) /\ Get(Unwrapped, "success") # Undef)
              => Get(out1, "success") = Get(Unwrapped, "success")

\* the null-default result with every field present
FullNullDefault ==
    Obj([success |-> Bool(FALSE), detected_objects |-> Arr(<<>>),
         recommendations |-> Arr(<<>>), eco_points |-> Whole(0),
         carbon_saved_kg |-> Whole(0), filename |-> Str(<<>>),
         debug |-> Obj([model_loaded |-> Bool(FALSE), detections_count |-> Whole(0)])])

\* C12: normalizing null or undefined yields exactly the null-default result,
\* filename and diagnostics included.
C12_NullDefaultComplete ==
    (nstage # "input" /\ raw \in {Null, Undef}) => out1 = FullNullDefault

\* the input carries no recommendation: no array under an alias (or an empty
\* one first) and no recommendation or message string
NoRecsSupplied ==
    /\ IsArray(FirstArray(Unwrapped, RecAliases)) => FirstArray(Unwrapped, RecAliases).v = <<>>
    /\ ~IsArray(FirstArray(Unwrapped, RecAliases)) =>
          /\ ~Truthy(Get(Unwrapped, "recommendation"))
          /\ ~Truthy(Get(Unwrapped, "message"))

\* C13: without recommendations from the backend the result has one
\* synthesized recommendation per detection, in order, built from its label
\* (none when there are no detections); a non-empty list or a single
\* recommendation string from the backend is kept as it is.
C13_RecommendationSynthesis ==
    Returned =>
        /\ NoRecsSupplied =>
              /\ Len(OutRecs) = Len(OutDetections)
              /\ \A i \in 1..Len(OutDetections) :
                    OutRecs[i] = Str(Get(OutDetections[i], "name").v \o RecSuffix)
        /\ (IsArray(Get(Unwrapped, "recommendations"))
              /\ Get(Unwrapped, "recommendations").v # <<>>)
              => OutRecs = Get(Unwrapped, "recommendations").v
        /\ (~IsArray(FirstArray(Unwrapped, RecAliases))
              /\ Truthy(Get(Unwrapped, "recommendation")))
              => OutRecs = <<Get(Unwrapped, "recommendation")>>

\* two detections, no recommendation supplied, two synthesized ones
C13_Witness ==
    /\ Returned /\ NoRecsSupplied
    /\ Len(OutDetections) = 2 /\ Len(OutRecs) = 2
    /\ Get(OutDetections[2], "name") = Str(<<"can">>)

\* C14: Scenario A normalizes to success, one detection 'bottle' at 0.92, one
\* synthesized recommendation, carbon 0.5, count 1 and ecoPoints 10.
C14_ScenarioA ==
    (nstage # "input" /\ raw = ScenarioA) =>
        /\ out1 # Throw
        /\ Get(out1, "success") = Bool(TRUE)
        /\ Len(OutDetections) = 1
        /\ Get(OutDetections[1], "name") = Str(<<"bottle">>)
        /\ Get(OutDetections[1], "conf") = Num(92)
        /\ OutRecs = <<Str(<<"bottle">> \o RecSuffix)>>
        /\ Get(out1, "carbon_saved_kg") = Num(50)
        /\ Get(Get(out1, "debug"), "detections_count") = Whole(1)
        /\ Get(out1, "eco_points") = Whole(10)

-----------------------------------------------------------------------------
(* Double precision arithmetic of h * (maxW / w).  A positive double is
   [m |-> its 53 significand bits, the leading 1 first, e |-> exponent] and
   stands for m * 2^e. *)

SignificandBits == 53

\* the bits plus one, on the same number of bits (some bit is 0)
IncrBits(bits) ==
    LET last == CHOOSE j \in 1..Len(bits) :
                    bits[j] = 0 /\ \A i \in (j + 1)..Len(bits) : bits[i] = 1
    IN  [i \in 1..Len(bits) |-> IF i < last THEN bits[i] ELSE IF i = last THEN 1 ELSE 0]

\* round to nearest, ties to even: keep are the bits kept, roundBit the first
\* bit dropped, sticky whether a later dropped bit is set
RoundNearestEven(keep, roundBit, sticky, e) ==
    IF roundBit = 1 /\ (sticky \/ keep[Len(keep)] = 1)
    THEN IF \A i \in 1..Len(keep) : keep[i] = 1
         THEN [m |-> <<1>> \o [i \in 1..(Len(keep) - 1) |-> 0], e |-> e + 1]
         ELSE [m |-> IncrBits(keep), e |-> e]
    ELSE [m |-> keep, e |-> e]

RECURSIVE LongDivision(_, _, _, _)
\* acc followed by the next n bits of r / den for a remainder r < den, and the
\* remainder left
LongDivision(r, den, n, acc) ==
    IF n = 0 THEN [bits |-> acc, r |-> r]
    ELSE IF 2 * r >= den
         THEN LongDivision(2 * r - den, den, n - 1, Append(acc, 1))
         ELSE LongDivision(2 * r, den, n - 1, Append(acc, 0))

RECURSIVE LeadingShift(_, _, _)
\* num doubled until it reaches den, with the number of doublings
LeadingShift(num, den, p) ==
    IF num >= den THEN [m |-> num, p |-> p] ELSE LeadingShift(2 * num, den, p + 1)

\* the double num / den, for 0 < num < den
DoubleQuotient(num, den) ==
    LET s == LeadingShift(num, den, 0)
        d == LongDivision(s.m - den, den, SignificandBits, <<>>)
    IN  RoundNearestEven(<<1>> \o SubSeq(d.bits, 1, SignificandBits - 1),
                         d.bits[SignificandBits], d.r # 0,
                         0 - s.p - (SignificandBits - 1))

RECURSIVE BinaryDigits(_)
\* the binary digits of a natural number, none for 0
BinaryDigits(c) ==
    IF c = 0 THEN <<>> ELSE BinaryDigits(c \div 2) \o <<c % 2>>

RECURSIVE TimesBits(_, _, _, _, _)
\* the bits of bits[1..i] * h + carry, followed by acc
TimesBits(bits, i, h, carry, acc) ==
    IF i = 0 THEN BinaryDigits(carry) \o acc
    ELSE TimesBits(bits, i - 1, h, (bits[i] * h + carry) \div 2,
                   <<(bits[i] * h + carry) % 2>> \o acc)

\* the double h * d for an integer h >= 1
DoubleTimes(d, h) ==
    LET p == TimesBits(d.m, Len(d.m), h, 0, <<>>)
        extra == Len(p) - SignificandBits
    IN  IF extra = 0 THEN [m |-> p, e |-> d.e]
        ELSE RoundNearestEven(SubSeq(p, 1, SignificandBits), p[SignificandBits + 1],
                              \E i \in (SignificandBits + 2)..Len(p) : p[i] = 1,
                              d.e + extra)

RECURSIVE BitsToNat(_)
BitsToNat(bits) ==
    IF bits = <<>> THEN 0
    ELSE 2 * BitsToNat(SubSeq(bits, 1, Len(bits) - 1)) + bits[Len(bits)]

\* Math.round of a positive double below 2^52: the nearest integer, a half
\* rounded up
MathRound(d) ==
    LET k == SignificandBits + d.e
    IN  IF k < 0 THEN 0
        ELSE BitsToNat(SubSeq(d.m, 1, k)) + d.m[k + 1]

\* Math.round(h * (maxW / w)) for w > maxW
ScaledHeight(h, maxW, w) == MathRound(DoubleTimes(DoubleQuotient(maxW, w), h))

-----------------------------------------------------------------------------
(* The compressor: compressImage and createBitmap of analyze.js, maybeCompress
   and loadImageBitmap of script.js.  Sizes are counted in units of half a
   mebibyte, qualities in hundredths. *)

\* MAX_UPLOAD_BYTES = 12 * 1024 * 1024 of analyze.js
MAX_UPLOAD_BYTES == 24

\* MAX_IMAGE_SIZE = 8 * 1024 * 1024 of script.js
MAX_IMAGE_SIZE == 16

\* maybeCompress returns a file of at most 1.5 * 1024 * 1024 bytes as it is
SmallFile == 3

MAX_WIDTH == 1200

MAX_W == 1600

\* the budget of the quality loop
MaxBytes(i) == IF i = "analyze" THEN MAX_UPLOAD_BYTES ELSE MAX_IMAGE_SIZE

\* the width above which the image is scaled down
MaxW(i) == IF i = "analyze" THEN MAX_WIDTH ELSE MAX_W

\* let quality = 0.92 (analyze.js), 0.9 (script.js)
InitialQuality(i) == IF i = "analyze" THEN 92 ELSE 90

\* quality -= 0.07
QualityStep == 7

\* the loop goes on while quality > 0.35
MinQuality == 35

\* the sizes of the files that handleFiles (analyze.js) and validateImageFile
\* (script.js) let through; the demo of script.js analyzes a file of 0 bytes
FileSizes(i) == {n \in {0, 1, 3, 4, 16, 24} : n <= MaxBytes(i)}

\* the dimensions an image can decode to; only the Image fallback can
\* deliver an image without dimensions
ImageDims ==
    {[w |-> 800, h |-> 600], [w |-> 1200, h |-> 900], [w |-> 1600, h |-> 1200],
     [w |-> 2400, h |-> 1801], [w |-> 1760, h |-> 11], [w |-> 3712, h |-> 145],
     [w |-> 4000, h |-> 1], [w |-> 0, h |-> 0]}

\* JPEG encoders of the drawn canvas: the size grows with the quality
EncoderScales == {10, 30, 45, 70, 90}

EncodedSize(k, q) == (k * q) \div 100

\* canvas.toBlob(r, 'image/jpeg', q): null for a canvas without pixels
ToBlob(c, k, q) ==
    IF c.w = 0 \/ c.h = 0 THEN Null
    ELSE [kind |-> "blob", size |-> EncodedSize(k, q), quality |-> q]

\* the file itself as a result
OriginalFile == [kind |-> "file", size |-> fileSize, quality |-> 0]

\* if (w > maxW) { h = Math.round(h * (maxW / w)); w = maxW; }
Resize(bm, maxW) ==
    IF bm.w > maxW THEN [w |-> maxW, h |-> ScaledHeight(bm.h, maxW, bm.w)] ELSE bm

\* a loop that gives up at half quality
KeepsLoweringAboveHalf(b, q, maxBytes) ==
    b # Null /\ b.size > maxBytes /\ q > 50

\* while (blob && blob.size > maxBytes && quality > 0.35)
KeepsLowering(b, q, maxBytes) ==
    b # Null /\ b.size > maxBytes /\ q > MinQuality

InitCompress ==
    /\ impl \in {"script", "analyze"}
    /\ InitAnalyze /\ InitUpload /\ InitNorm /\ InitCalls
    /\ cpc = "idle"
    /\ fileSize \in FileSizes(impl)
    /\ native \in BOOLEAN
    /\ encK \in EncoderScales
    /\ bitmap = Null /\ canvas = Null /\ canvasSets = 0
    /\ quality = 0 /\ blob = Null /\ encodes = 0
    /\ urlsCreated = 0 /\ urlsRevoked = 0
    /\ returned = [kind |-> "none", size |-> 0, quality |-> 0] /\ thrown = FALSE
    /\ InitExtra

\* the caller is handed the file
ReturnFile ==
    /\ cpc' = "done" /\ returned' = OriginalFile /\ UNCHANGED thrown

\* the failure e reaches the end of the function: compressImage catches it
\* and returns the file, maybeCompress rejects to its caller
Fail ==
    IF impl = "analyze" THEN ReturnFile
    ELSE cpc' = "done" /\ thrown' = TRUE /\ UNCHANGED returned

\* the call up to the decoding: small files are returned by maybeCompress,
\* the Image fallback creates an object URL for img.src
CompressCall ==
    /\ cpc = "idle"
    /\ IF impl = "script" /\ fileSize <= SmallFile
       THEN ReturnFile /\ UNCHANGED urlsCreated
       ELSE /\ cpc' = "decoding"
            /\ urlsCreated' = IF native THEN urlsCreated ELSE urlsCreated + 1
            /\ UNCHANGED <<returned, thrown>>
    /\ UNCHANGED <<fileSize, native, encK, bitmap, canvas, canvasSets, quality,
                   blob, encodes, urlsRevoked>>
    /\ UNCHANGED <<extraVars, uploadVars, analyzeVars, normVars, callVars>>

\* the image decodes to d: createImageBitmap resolves, or img.onload draws
\* the image on a canvas (which can throw) and resolves with it; then the
\* function resizes, draws on its canvas and asks for the first encoding.
\* Drawing a canvas without pixels throws.
DecodeLoaded ==
    /\ cpc = "decoding"
    /\ fileSize > 0
    /\ \E d \in ImageDims, drawThrows \in BOOLEAN :
          /\ d.w = 0 => ~native
          /\ drawThrows => ~native
          /\ IF drawThrows
             THEN /\ IF impl = "analyze" THEN ReturnFile
                     ELSE cpc' = "hung" /\ UNCHANGED <<returned, thrown>>
                  /\ UNCHANGED <<bitmap, canvas, canvasSets, quality, encodes>>
             ELSE /\ bitmap' = d
                  /\ IF d.w = 0 \/ d.h = 0
                     THEN Fail /\ UNCHANGED <<canvas, canvasSets, quality, encodes>>
                     ELSE /\ canvas' = Resize(d, MaxW(impl))
                          /\ canvasSets' = canvasSets + 1
                          /\ quality' = InitialQuality(impl)
                          /\ encodes' = encodes + 1
                          /\ cpc' = "encoding"
                          /\ UNCHANGED <<returned, thrown>>
    /\ UNCHANGED <<fileSize, native, encK, blob, urlsCreated, urlsRevoked>>
    /\ UNCHANGED <<extraVars, uploadVars, analyzeVars, normVars, callVars>>

\* the image does not decode: createImageBitmap rejects, or img.onerror
DecodeFailed ==
    /\ cpc = "decoding"
    /\ Fail
    /\ UNCHANGED <<fileSize, native, encK, bitmap, canvas, canvasSets, quality,
                   blob, encodes, urlsCreated, urlsRevoked>>
    /\ UNCHANGED <<extraVars, uploadVars, analyzeVars, normVars, callVars>>

\* a loop that lowers the quality by 0.05 a round
AfterToBlobByFive(b) ==
    /\ blob' = b
    /\ IF KeepsLowering(b, quality, MaxBytes(impl))
       THEN /\ quality' = quality - 5
            /\ encodes' = encodes + 1
            /\ UNCHANGED <<cpc, returned, thrown>>
       ELSE /\ cpc' = "done"
            /\ returned' = IF b # Null THEN b ELSE OriginalFile
            /\ UNCHANGED <<quality, encodes, thrown>>

\* the loop after toBlob has delivered b: it lowers the quality and encodes
\* again, or the function returns blob || file
AfterToBlob(b) ==
    /\ blob' = b
    /\ IF KeepsLowering(b, quality, MaxBytes(impl))
       THEN /\ quality' = quality - QualityStep
            /\ encodes' = encodes + 1
            /\ UNCHANGED <<cpc, returned, thrown>>
       ELSE /\ cpc' = "done"
            /\ returned' = IF b # Null THEN b ELSE OriginalFile
            /\ UNCHANGED <<quality, encodes, thrown>>

\* toBlob delivers the encoding of the canvas at the current quality
EncodeDone ==
    /\ cpc = "encoding"
    /\ AfterToBlob(ToBlob(canvas, encK, quality))
    /\ UNCHANGED <<fileSize, native, encK, bitmap, canvas, canvasSets,
                   urlsCreated, urlsRevoked>>
    /\ UNCHANGED <<extraVars, uploadVars, analyzeVars, normVars, callVars>>

NextCompress == CompressCall \/ DecodeLoaded \/ DecodeFailed \/ EncodeDone

SpecCompress == InitCompress /\ [][NextCompress]_vars

\* some quality of at least minQuality gives an encoding within the budget
BudgetFeasible ==
    \E q \in MinQuality..100 : EncodedSize(encK, q) <= MaxBytes(impl)

\* the function has finished after encoding its canvas
Encoded == cpc = "done" /\ canvas # Null /\ canvas.w # 0 /\ canvas.h # 0

\* C15: the compressor never throws to its caller; when the image cannot be
\* decoded, or has no bytes or no dimensions, it returns the original file.
C15_NeverThrows ==
    /\ ~thrown
    /\ (cpc = "done" /\ canvas = Null) => returned = OriginalFile

\* C16: when some quality of at least minQuality gives an encoding of at most
\* maxBytes, the compressor returns a blob of at most maxBytes.
C16_BudgetMetWhenFeasible ==
    (Encoded /\ BudgetFeasible) =>
        returned.kind = "blob" /\ returned.size <= MaxBytes(impl)

\* the first encoding was over the budget and a later one is returned
C16_Witness ==
    /\ Encoded /\ BudgetFeasible
    /\ EncodedSize(encK, InitialQuality(impl)) > MaxBytes(impl)
    /\ encodes > 1
    /\ returned.kind = "blob" /\ returned.size <= MaxBytes(impl)

\* C17: when no quality of at least minQuality meets the budget, the blob
\* returned is the one encoded at minQuality; no blob encoded below minQuality
\* is ever returned.
C17_NeverBelowMinQuality ==
    (cpc = "done" /\ returned.kind = "blob") =>
        /\ returned.quality >= MinQuality
        /\ ~BudgetFeasible => returned.quality = MinQuality

\* C18: the canvas has the dimensions of the image when its width is at most
\* maxWidth, else width maxWidth and height round(h * maxWidth / w); its
\* dimensions are set once.
C18_ResizeRule ==
    canvas # Null =>
        /\ bitmap.w <= MaxW(impl) => canvas = bitmap
        /\ bitmap.w > MaxW(impl) =>
              /\ canvas.w = MaxW(impl)
              /\ canvas.h = (2 * bitmap.h * MaxW(impl) + bitmap.w) \div (2 * bitmap.w)
        /\ canvasSets = 1

\* C19: once the decoding has ended, every object URL it created has been
\* revoked, once.
C19_UrlsRevoked ==
    cpc \in {"encoding", "done", "hung"} => urlsRevoked = urlsCreated

\* what an encoder can deliver at quality q, whatever its sizes: nothing, an
\* encoding within the budget, at the budget, or over it
AnyBlobs(q, maxBytes) ==
    {Null} \cup {[kind |-> "blob", size |-> n, quality |-> q] :
                    n \in {1, maxBytes, maxBytes + 1}}

\* toBlob delivers an encoding of any size
EncodeDoneAny ==
    /\ cpc = "encoding"
    /\ \E b \in AnyBlobs(quality, MaxBytes(impl)) : AfterToBlob(b)
    /\ UNCHANGED <<fileSize, native, encK, bitmap, canvas, canvasSets,
                   urlsCreated, urlsRevoked>>
    /\ UNCHANGED <<extraVars, uploadVars, analyzeVars, normVars, callVars>>

NextCompressAny == CompressCall \/ DecodeLoaded \/ DecodeFailed \/ EncodeDoneAny

\* the compressor over arbitrary encoders; every toBlob call delivers
SpecCompressAny ==
    InitCompress /\ [][NextCompressAny]_vars /\ WF_vars(EncodeDoneAny)

\* the qualities initialQuality - k * step
OnLadder(q) ==
    \E k \in 0..100 : q = InitialQuality(impl) - k * QualityStep

\* C21: every quality at which the compressor encodes is on the ladder
\* initialQuality - k * step and at least minQuality.
C21_EncodesAtOrAboveMinQuality ==
    encodes > 0 => OnLadder(quality) /\ quality >= MinQuality

\* ceil((initialQuality - minQuality) / qualityStep): 9 for 0.92, 8 for 0.90
MaxReencodes == IF impl = "analyze" THEN 9 ELSE 8

\* C22: the quality loop terminates, the quality strictly decreases from one
\* encoding to the next, and at most 9 (analyze.js) or 8 (script.js)
\* encodings follow the first, whatever the encoder delivers.
C22_LoopTerminates ==
    /\ [](encodes <= 1 + MaxReencodes)
    /\ [][encodes' > encodes /\ encodes > 0 => quality' < quality]_vars
    /\ (cpc = "encoding" ~> cpc = "done")

\* the loop has run to its last quality against an encoder over the budget
C22_Witness ==
    /\ cpc = "done" /\ encodes = 1 + MaxReencodes
    /\ returned.kind = "blob" /\ returned.size > MaxBytes(impl)

\* C23: the height of a downscaled image is at least 1 for every image of
\* width and height at least 1.
C23_ScaledHeightAtLeastOne ==
    (canvas # Null /\ bitmap.w > MaxW(impl) /\ bitmap.h >= 1) => canvas.h >= 1

-----------------------------------------------------------------------------
(* Overlapping calls of analyzeImage of script.js: the click on the analyze
   button, the interval of startDemoMode and the exported function can start
   a call while another one awaits its compression or its upload. *)

\* calls started in one run
MaxCalls == 3

\* what the markup of the page can put on the button
ButtonLabels == {Str(<<"Analyze">>), Str(<<"Analyze", " ", "Image">>)}

\* the positions at which a call awaits
Awaiting == {"compressing", "uploading"}

InitConcurrent ==
    /\ impl = "script"
    /\ InitAnalyze /\ InitUpload /\ InitNorm /\ InitCodec
    /\ initialLabel \in ButtonLabels
    /\ label = initialLabel
    /\ prevLabel = Undef /\ calls = <<>> /\ overlapped = FALSE
    /\ InitExtra

\* the finally block: the button is enabled and gets dataset.prev || 'Analyze'
Finally ==
    /\ button' = "enabled"
    /\ label' = Or2(prevLabel, Str(<<"Analyze">>))
    /\ UNCHANGED prevLabel

\* analyzeImage() up to its first await; a click needs an enabled button, the
\* interval of the demo and a direct call do not; a file that fails the
\* validation ends the call before the button is touched
CallAnalyzeImage ==
    /\ Len(calls) < MaxCalls
    /\ \E trigger \in {"click", "interval"}, valid \in BOOLEAN :
          /\ trigger = "click" => button = "enabled"
          /\ IF ~valid
             THEN /\ calls' = Append(calls, "invalid")
                  /\ UNCHANGED <<button, label, prevLabel, overlapped>>
             ELSE /\ button' = "disabled"
                  /\ prevLabel' = label
                  /\ label' = Str(<<"Analyzing...">>)
                  /\ calls' = Append(calls, "compressing")
                  /\ overlapped' = (overlapped \/ \E j \in 1..Len(calls) : calls[j] \in Awaiting)
    /\ UNCHANGED initialLabel
    /\ UNCHANGED <<impl, pc, ui, normalizerCalls, renderLog, mockTimer>>
    /\ UNCHANGED <<extraVars, uploadVars, normVars, codecVars>>

\* await maybeCompress(file) settles: the call goes on to the upload, or to
\* catch and finally
CompressSettles ==
    /\ \E i \in 1..Len(calls), ok \in BOOLEAN :
          /\ calls[i] = "compressing"
          /\ IF ok
             THEN /\ calls' = [calls EXCEPT ![i] = "uploading"]
                  /\ UNCHANGED <<button, label, prevLabel>>
             ELSE /\ calls' = [calls EXCEPT ![i] = "failed"]
                  /\ Finally
    /\ UNCHANGED <<initialLabel, overlapped>>
    /\ UNCHANGED <<impl, pc, ui, normalizerCalls, renderLog, mockTimer>>
    /\ UNCHANGED <<extraVars, uploadVars, normVars, codecVars>>

\* await uploadWithProgress(...) settles: the results are rendered, or the
\* failure is shown; finally runs in both cases
UploadSettles ==
    /\ \E i \in 1..Len(calls), ok \in BOOLEAN :
          /\ calls[i] = "uploading"
          /\ calls' = [calls EXCEPT ![i] = IF ok THEN "rendered" ELSE "failed"]
          /\ Finally
    /\ UNCHANGED <<initialLabel, overlapped>>
    /\ UNCHANGED <<impl, pc, ui, normalizerCalls, renderLog, mockTimer>>
    /\ UNCHANGED <<extraVars, uploadVars, normVars, codecVars>>

NextConcurrent == CallAnalyzeImage \/ CompressSettles \/ UploadSettles

SpecConcurrent == InitConcurrent /\ [][NextConcurrent]_vars

\* C20: once overlapping calls of analyzeImage have all finished, the analyze
\* button is enabled and shows the label it had before the first call.
C20_OverlappingCallsRestoreButton ==
    (overlapped /\ \A i \in 1..Len(calls) : calls[i] \notin Awaiting) =>
        button = "enabled" /\ label = initialLabel

-----------------------------------------------------------------------------
(* The list of detections each implementation takes from a response:
   normalizeResponse of script.js, the click handler and renderResults of
   analyze.js *)

\* the order of the chain data.detected_objects || data.detected || ... of
\* analyze.js
AnalyzeAliases == <<"detected_objects", "detected", "items", "objects", "results">>

\* what a response can hold under an alias: an empty list, two lists of
\* detections, and a value that is not a list
AliasValues ==
    {Arr(<<>>),
     Arr(<<Obj([name |-> Str(<<"bottle">>)])>>),
     Arr(<<Obj([name |-> Str(<<"can">>)])>>),
     Str(<<"none">>)}

AliasNames == {"detected_objects", "detected", "items", "objects", "results"}

\* the responses with any of the aliases present
SelectInputs ==
    {Obj(f) : f \in UNION {[S -> AliasValues] : S \in SUBSET AliasNames}}

InitSelect ==
    /\ impl \in {"script", "analyze"}
    /\ InitAnalyze /\ InitUpload /\ InitCodec /\ InitCalls
    /\ raw \in SelectInputs
    /\ out1 = Undef /\ out2 = Undef /\ nstage = "input"
    /\ InitSel /\ InitDemo /\ InitPageVars

\* normalizeResponse(raw) up to the selection of detected
ScriptSelects ==
    /\ scriptList = Undef
    /\ scriptList' = Arr(SelectDetected(IF Truthy(raw) THEN Unwrap(raw) ELSE raw))
    /\ UNCHANGED <<analyzeList, demoVars, pageVars>>
    /\ UNCHANGED <<uploadVars, analyzeVars, normVars, codecVars, callVars>>

\* the click handler on the response raw: data.detected_objects is set from
\* the chain, and renderResults takes it when it is an array
AnalyzeSelects ==
    /\ analyzeList = Undef
    /\ LET data == IF Truthy(raw) /\ raw.t \in {"obj", "arr"} THEN raw ELSE Obj(<<>>)
           sel == AnalyzeSelectDetected(data)
       IN  analyzeList' = IF IsArray(sel) THEN sel ELSE Arr(<<>>)
    /\ UNCHANGED <<scriptList, demoVars, pageVars>>
    /\ UNCHANGED <<uploadVars, analyzeVars, normVars, codecVars, callVars>>

NextSelect == ScriptSelects \/ AnalyzeSelects

SpecSelect == InitSelect /\ [][NextSelect]_vars

\* the value under the first name of order that is an array, else no list
FirstArrayValued(o, order) ==
    LET arrays == {i \in 1..Len(order) : IsArray(Get(o, order[i]))}
    IN  IF arrays = {} THEN Arr(<<>>)
        ELSE Get(o, order[CHOOSE i \in arrays : \A j \in arrays : i <= j])

\* C24: the detections are those of the first field, in the alias order of
\* the implementation, whose value is an array; later aliases are ignored,
\* and an empty array under an earlier alias is taken as no detections.
C24_FirstArrayAliasWins ==
    /\ scriptList # Undef => scriptList = FirstArrayValued(raw, DetectionAliases)
    /\ analyzeList # Undef => analyzeList = FirstArrayValued(raw, AnalyzeAliases)

\* C26: for a response whose alias fields are all arrays, analyze.js and
\* script.js select the same list.
C26_SameListInBothClients ==
    (/\ scriptList # Undef /\ analyzeList # Undef
     /\ \A a \in AliasNames : Get(raw, a) # Undef => IsArray(Get(raw, a)))
        => scriptList = analyzeList

-----------------------------------------------------------------------------
(* Demo mode of script.js: startDemoMode, its interval callback and
   stopDemoMode.  One start of the demo is followed. *)

DemoFiles == <<"plastic_water_bottle.jpg", "old_smartphone.png", "textbook.jpeg">>

\* interval callbacks that start an analysis in one run
MaxDemoRuns == 4

InitDemoMode ==
    /\ impl = "script"
    /\ InitAnalyze /\ InitUpload /\ InitNorm /\ InitCodec /\ InitCalls
    /\ InitSel /\ InitDemo /\ InitPageVars

\* startDemoMode(): nothing when the demo runs, else the interval is set
\* with i = 0
StartDemoMode ==
    /\ ~inDemo /\ demoTimer = "unset"
    /\ inDemo' = TRUE /\ demoI' = 0 /\ demoTimer' = "active"
    /\ UNCHANGED demoRuns
    /\ UNCHANGED <<selVars, pageVars>>
    /\ UNCHANGED <<uploadVars, analyzeVars, normVars, codecVars, callVars>>

\* the interval callback, every 2200 ms: past the last file it clears the
\* interval, else it selects demoFiles[i] and awaits analyzeImage()
DemoTick ==
    /\ demoTimer = "active"
    /\ IF demoI >= Len(DemoFiles)
       THEN /\ demoTimer' = "finished" /\ inDemo' = FALSE
            /\ UNCHANGED demoRuns
       ELSE /\ Len(demoRuns) < MaxDemoRuns
            /\ demoRuns' = Append(demoRuns, [file |-> DemoFiles[demoI + 1], st |-> "awaiting"])
            /\ UNCHANGED <<demoTimer, inDemo>>
    /\ UNCHANGED demoI
    /\ UNCHANGED <<selVars, pageVars>>
    /\ UNCHANGED <<uploadVars, analyzeVars, normVars, codecVars, callVars>>

\* await analyzeImage() returns in a callback, which goes on with i++
DemoAnalysisReturns ==
    /\ \E k \in 1..Len(demoRuns) :
          /\ demoRuns[k].st = "awaiting"
          /\ demoRuns' = [demoRuns EXCEPT ![k].st = "done"]
    /\ demoI' = demoI + 1
    /\ UNCHANGED <<inDemo, demoTimer>>
    /\ UNCHANGED <<selVars, pageVars>>
    /\ UNCHANGED <<uploadVars, analyzeVars, normVars, codecVars, callVars>>

\* stopDemoMode()
StopDemoMode ==
    /\ demoTimer = "active"
    /\ demoTimer' = "stopped" /\ inDemo' = FALSE
    /\ UNCHANGED <<demoI, demoRuns>>
    /\ UNCHANGED <<selVars, pageVars>>
    /\ UNCHANGED <<uploadVars, analyzeVars, normVars, codecVars, callVars>>

NextDemoMode == StartDemoMode \/ DemoTick \/ DemoAnalysisReturns \/ StopDemoMode

SpecDemoMode == InitDemoMode /\ [][NextDemoMode]_vars

\* C27: the demo analyzes the demo files in list order, each at most once
\* and all of them by the time it finishes by itself, and no callback starts
\* an analysis while an earlier one still awaits.
C27_DemoAnalyzesEachFileOnce ==
    /\ Len(demoRuns) <= Len(DemoFiles)
    /\ \A k \in 1..Len(demoRuns) : k <= Len(DemoFiles) => demoRuns[k].file = DemoFiles[k]
    /\ Cardinality({k \in 1..Len(demoRuns) : demoRuns[k].st = "awaiting"}) <= 1
    /\ demoTimer = "finished" => Len(demoRuns) = Len(DemoFiles)

-----------------------------------------------------------------------------
(* The page of analyze.js: file selection, camera, clear-preview,
   analyze-another and the click handler of the analyze button *)

\* files the user can select or capture
MaxFiles == 1

\* click handlers of the analyze button started in one run
MaxPageRuns == 2

\* getUserMedia requests made in one run
MaxStreams == 2

\* toBlob callbacks of captureFromCamera pending at one time
MaxCaptures == 1

\* what the page actions leave alone
notPage == <<uploadVars, normVars, codecVars, callVars, selVars, demoVars,
             impl, pc, ui, normalizerCalls, renderLog>>

\* the page as loaded: disableAnalyze() has run
InitPage ==
    /\ impl = "analyze"
    /\ pc = "idle" /\ button = "disabled" /\ ui = "initial"
    /\ normalizerCalls = 0 /\ renderLog = <<>> /\ mockTimer = "unset"
    /\ InitUpload /\ InitNorm /\ InitCodec /\ InitCalls
    /\ InitSel /\ InitDemo /\ InitPageVars

\* handleFiles with an image of at most MAX_UPLOAD_BYTES
HandleFiles ==
    /\ \E f \in 1..MaxFiles : currentFile' = f
    /\ button' = "enabled"
    /\ UNCHANGED <<pageRuns, anotherShown, cameraStream, streams, captures, mockTimer>>
    /\ UNCHANGED notPage

\* the click on clearPreview, a button of the preview
ClearPreviewClick ==
    /\ currentFile # 0
    /\ currentFile' = 0
    /\ button' = "disabled"
    /\ anotherShown' = FALSE
    /\ UNCHANGED <<pageRuns, cameraStream, streams, captures, mockTimer>>
    /\ UNCHANGED notPage

\* analyzeAnother(), the click on the button of the rendered results
AnalyzeAnotherClick ==
    /\ anotherShown
    /\ currentFile' = 0
    /\ button' = "disabled"
    /\ anotherShown' = FALSE
    /\ UNCHANGED <<pageRuns, cameraStream, streams, captures, mockTimer>>
    /\ UNCHANGED notPage

\* the click handler of analyzeButton up to await compressImage(currentFile)
PageAnalyzeClick ==
    /\ button = "enabled"
    /\ currentFile # 0
    /\ Len(pageRuns) < MaxPageRuns
    /\ button' = "disabled"
    /\ anotherShown' = FALSE
    /\ pageRuns' = Append(pageRuns, [pc |-> "compressing", err |-> "none"])
    /\ UNCHANGED <<currentFile, cameraStream, streams, captures, mockTimer>>
    /\ UNCHANGED notPage

\* compressImage has returned: the handler reads currentFile.name, which
\* throws when currentFile is null; catch arms the mock timer and finally
\* enables the button
PageCompressReturns ==
    /\ \E k \in 1..Len(pageRuns) :
          /\ pageRuns[k].pc = "compressing"
          /\ IF currentFile = 0
             THEN /\ pageRuns' = [pageRuns EXCEPT ![k].pc = "done", ![k].err = "TypeError"]
                  /\ mockTimer' = "armed"
                  /\ button' = "enabled"
             ELSE /\ pageRuns' = [pageRuns EXCEPT ![k].pc = "uploading"]
                  /\ UNCHANGED <<mockTimer, button>>
    /\ UNCHANGED <<currentFile, anotherShown, cameraStream, streams, captures>>
    /\ UNCHANGED notPage

\* uploadFileWithProgress has settled: the results are rendered with or
\* without detections, or the failure is shown and the mock timer armed;
\* finally enables the button
PageUploadReturns ==
    /\ \E k \in 1..Len(pageRuns), outcome \in {"detections", "none", "failed"} :
          /\ pageRuns[k].pc = "uploading"
          /\ pageRuns' = [pageRuns EXCEPT ![k].pc = "done"]
          /\ anotherShown' = (outcome = "detections")
          /\ mockTimer' = IF outcome = "failed" THEN "armed" ELSE mockTimer
    /\ button' = "enabled"
    /\ UNCHANGED <<currentFile, cameraStream, streams, captures>>
    /\ UNCHANGED notPage

\* setTimeout(() => showMockResult(), 600)
PageMockFires ==
    /\ mockTimer = "armed"
    /\ mockTimer' = "fired"
    /\ anotherShown' = TRUE
    /\ UNCHANGED <<button, currentFile, pageRuns, cameraStream, streams, captures>>
    /\ UNCHANGED notPage

\* startCamera() up to await getUserMedia(...)
StartCameraClick ==
    /\ cameraStream = 0
    /\ Len(streams) < MaxStreams
    /\ streams' = Append(streams, "pending")
    /\ UNCHANGED <<button, mockTimer, currentFile, pageRuns, anotherShown, cameraStream, captures>>
    /\ UNCHANGED notPage

\* getUserMedia settles: the stream is stored in cameraStream, or the
\* failure is caught
GetUserMediaSettles ==
    /\ \E k \in 1..Len(streams), granted \in BOOLEAN :
          /\ streams[k] = "pending"
          /\ IF granted
             THEN streams' = [streams EXCEPT ![k] = "live"] /\ cameraStream' = k
             ELSE streams' = [streams EXCEPT ![k] = "denied"] /\ UNCHANGED cameraStream
    /\ UNCHANGED <<button, mockTimer, currentFile, pageRuns, anotherShown, captures>>
    /\ UNCHANGED notPage

\* the streams after stopCamera(), and cameraStream
StoppedStreams ==
    IF cameraStream = 0 THEN streams ELSE [streams EXCEPT ![cameraStream] = "stopped"]

\* stopCamera(), the click on stopCameraBtn
StopCameraClick ==
    /\ cameraStream # 0
    /\ streams' = StoppedStreams
    /\ cameraStream' = 0
    /\ UNCHANGED <<button, mockTimer, currentFile, pageRuns, anotherShown, captures>>
    /\ UNCHANGED notPage

\* captureFromCamera() up to canvas.toBlob
CaptureClick ==
    /\ cameraStream # 0
    /\ captures < MaxCaptures
    /\ captures' = captures + 1
    /\ UNCHANGED <<button, mockTimer, currentFile, pageRuns, anotherShown, cameraStream, streams>>
    /\ UNCHANGED notPage

\* the file made of a captured frame, capture_<time>.jpg
CapturedFile == 0 - 1

\* the toBlob callback of captureFromCamera: without a blob nothing changes,
\* else the capture is selected and the camera stopped
CaptureDelivered ==
    /\ captures > 0
    /\ captures' = captures - 1
    /\ \E delivered \in BOOLEAN :
          IF ~delivered
          THEN UNCHANGED <<currentFile, button, streams, cameraStream>>
          ELSE /\ currentFile' = CapturedFile
               /\ button' = "enabled"
               /\ streams' = StoppedStreams
               /\ cameraStream' = 0
    /\ UNCHANGED <<mockTimer, pageRuns, anotherShown>>
    /\ UNCHANGED notPage

NextPage ==
    \/ HandleFiles \/ ClearPreviewClick \/ AnalyzeAnotherClick
    \/ PageAnalyzeClick \/ PageCompressReturns \/ PageUploadReturns \/ PageMockFires
    \/ StartCameraClick \/ GetUserMediaSettles \/ StopCameraClick
    \/ CaptureClick \/ CaptureDelivered

SpecPage == InitPage /\ [][NextPage]_vars

\* no click handler of the analyze button is under way
NoAnalysisRunning == \A k \in 1..Len(pageRuns) : pageRuns[k].pc = "done"

\* C28: when no analysis is running, the analyze button is enabled only if
\* an image is selected.
C28_EnabledOnlyWithFile ==
    (NoAnalysisRunning /\ button = "enabled") => currentFile # 0

\* C29: no click handler fails on currentFile after its first await.
C29_HandlerDoesNotNeedCurrentFile ==
    \A k \in 1..Len(pageRuns) : pageRuns[k].err # "TypeError"

\* C30: every stream obtained from getUserMedia and not stopped is the one
\* stored in cameraStream.
C30_AtMostOneStreamOpen ==
    \A k \in 1..Len(streams) : streams[k] = "live" => cameraStream = k

=============================================================================
